---- MODULE Spec2Model ----
(***************************************************************************)
(* A model of the nonvolatile crate (src/src/lib.rs): one state bundle     *)
(* directory <root>/<name> on disk, the lock-file protocol that guards it, *)
(* the manifest writer, and the State facade, used by State instances that *)
(* live in one or two processes.                                           *)
(*                                                                         *)
(* File contents are sequences of lines; a line is a tuple of strings.     *)
(* The lock file holds the three lines of a state id (pid, nonce, exe      *)
(* path); the manifest holds one header line, the items map and the        *)
(* preserved map, one line per entry.                                      *)
(***************************************************************************)
EXTENDS Integers, Sequences, FiniteSets, TLC

(* ----------------------------- bounds --------------------------------- *)
\* random::<u32>() draws from 1..NumNonces
NumNonces == 2
\* variable names a caller uses with set/delete/preserve
NumKeys == 3
\* values a caller stores
NumValues == 2
\* file-system calls that fail in one run
MaxFaults == 1
\* processes that die in one run without running their destructors
MaxCrashes == 1

KeyName == <<"k1", "k2", "k3", "k4">>
ValName == <<"v1", "v2", "v3">>
Keys == {KeyName[i] : i \in 1..NumKeys}
Values == {ValName[i] : i \in 1..NumValues}
Nonces == 1..NumNonces

\* the operating system's process ids, and the State instances of the model:
\* instance "a" lives in process 1, instance "b" in process 1 or 2.
Pids == {1, 2}
Agents == {"a", "b"}
\* executable paths: the program that uses the crate, and an unrelated one
APP == "app"
Exes == {APP, "other"}
DEAD == "dead"

\* files a caller preserves: a plain file and a directory with files in it
Sources == {"/f", "/d"}
SrcKind(p) == IF p = "/d" THEN "dir" ELSE "file"

\* an absent map entry
NONE == ""

(* ------------------------- the bundle directory ----------------------- *)
BUNDLE_PATH == "R/X"
LOCKFILE == "~rust_nonvolatile.lock"
MANIFEST == ".manifest"
TMP_MANIFEST == ".manifest_tmp"
TmpName(name) == "tmp_" \o name
\* the files that the crate itself keeps in the bundle directory
BundleFileName == <<LOCKFILE, MANIFEST, TMP_MANIFEST>>
BundleFiles == {BundleFileName[i] : i \in 1..Len(BundleFileName)}
\* the strings a caller may pass as a name: set, delete and _preserve take
\* any &str, also one that spells a file of the crate's own
Names == Keys \cup BundleFiles
NameSeq == [i \in 1..NumKeys |-> KeyName[i]] \o BundleFileName
FileNames == BundleFiles \cup Keys \cup {TmpName(k) : k \in Names}

NoFile == [kind |-> "none", data |-> <<>>]
File(d) == [kind |-> "file", data |-> d]
DirOf(d) == [kind |-> "dir", data |-> d]
EmptyFs == [n \in FileNames |-> NoFile]
EmptyMap == [k \in Names |-> NONE]

VARIABLES
    procs,       \* the process table: pid -> executable path, or DEAD
    pidOf,       \* the process each State instance lives in
    dirExists,   \* whether the bundle directory exists
    fs,          \* the files of the bundle directory: name -> content
    pc,          \* where each instance is: idle, inside load/new, or open
    op,          \* the constructor an instance is running
    identifier,  \* State.identifier (the state id), as lines
    items,       \* State.items
    preserved,   \* State.preserved
    self_path,   \* State.path, the directory that the State's manifest_path and
                 \* tmp_manifest_path lie in
    last,        \* the call or step that was taken last, and its result
    nfaults,     \* file-system calls that have failed so far
    ncrashes     \* processes that have died so far

vars == <<procs, pidOf, dirExists, fs, pc, op, identifier, items, preserved,
          self_path, last, nfaults, ncrashes>>

Ev(a, c, r) == [agent |-> a, call |-> c, r |-> r]

Alive(a) == procs[pidOf[a]] = APP

(* --------------------------- state ids -------------------------------- *)
\* format!("{}\n{}\n{}", process::id(), random::<u32>(), exe_path)
StateId(pid, nonce, exe) == << <<ToString(pid)>>, <<ToString(nonce)>>, <<exe>> >>

\* parts.0.parse::<u32>(): the pid a line spells, or -1
ParsePid(line) ==
    IF Len(line) = 1 /\ \E p \in Pids : ToString(p) = line[1]
    THEN CHOOSE p \in Pids : ToString(p) = line[1]
    ELSE -1

\* a match_state_id that looks at the pid only, not at the executable
match_state_id_pid_only(my_id, read_id) ==
    IF my_id = read_id THEN "Me"
    ELSE IF Len(read_id) # 3 THEN "Nobody"
    ELSE IF ParsePid(read_id[1]) = -1 THEN "Nobody"
    ELSE IF \E p \in Pids : procs[p] # DEAD /\ p = ParsePid(read_id[1])
         THEN "Other" ELSE "Nobody"

\* a match_state_id that looks at the executable only, not at the pid
match_state_id_exe_only(my_id, read_id) ==
    IF my_id = read_id THEN "Me"
    ELSE IF Len(read_id) # 3 THEN "Nobody"
    ELSE IF ParsePid(read_id[1]) = -1 THEN "Nobody"
    ELSE IF \E p \in Pids : procs[p] # DEAD /\ read_id[3] = <<procs[p]>>
         THEN "Other" ELSE "Nobody"

\* match_state_id: whose state id the lock file holds (WhoOwns)
match_state_id(my_id, read_id) ==
    IF my_id = read_id THEN "Me"
    ELSE IF Len(read_id) # 3 THEN "Nobody"
    ELSE IF ParsePid(read_id[1]) = -1 THEN "Nobody"
    ELSE IF \E p \in Pids : /\ procs[p] # DEAD
                            /\ p = ParsePid(read_id[1])
                            /\ read_id[3] = <<procs[p]>>
         THEN "Other"
         ELSE "Nobody"

\* "true", "false" or "err" (Result<bool>)
get_lock_acquired(state_id) ==
    IF ~dirExists \/ fs[LOCKFILE].kind # "file" THEN "false"
    ELSE LET who == match_state_id(state_id, fs[LOCKFILE].data)
         IN  IF who = "Me" THEN "true" ELSE IF who = "Other" THEN "err" ELSE "false"

(* ---------------------- the manifest's encoding ----------------------- *)
\* serde_yaml::to_string of a value, and serde_yaml::from_str of an item
Encode(v) == "---" \o v
Decode(s) == IF \E v \in Values : Encode(v) = s
             THEN CHOOSE v \in Values : Encode(v) = s
             ELSE NONE

\* a map as serde_yaml writes it: "head: {}" when it is empty, else the
\* line "head:" and one line per entry
MapLines(head, tag, m) ==
    LET all == [i \in 1..Len(NameSeq) |-> <<tag, NameSeq[i], m[NameSeq[i]]>>]
        entries == SelectSeq(all, LAMBDA l : l[3] # NONE)
    IN  IF entries = <<>> THEN << <<head, "{}">> >> ELSE << <<head>> >> \o entries

\* serde_yaml::to_vec(self): every field of the State; the header line holds
\* the path strings and the identifier
SerializeAt(dir, id, it, pr) ==
    << <<"hdr", dir, id[1][1], id[2][1], id[3][1]>> >>
        \o MapLines("items", "item", it) \o MapLines("preserved", "pres", pr)

\* the serialization of a State whose path strings are those that new_from
\* derives from the root and the name
Serialize(id, it, pr) == SerializeAt(BUNDLE_PATH, id, it, pr)

\* the last value the entry lines from..to give a key, or NONE
RECURSIVE Collect(_, _, _, _)
Collect(d, from, to, k) ==
    IF from > to THEN NONE
    ELSE IF d[to][2] = k THEN d[to][3]
    ELSE Collect(d, from, to - 1, k)

\* the line after the last entry line of the block that starts at line i
RECURSIVE EntriesEnd(_, _, _)
EntriesEnd(d, i, tag) ==
    IF i <= Len(d) /\ Len(d[i]) = 3 /\ d[i][1] = tag
    THEN EntriesEnd(d, i + 1, tag)
    ELSE i

\* the map whose head line is line i: whether it parses, the map, and the
\* line that follows it
ParseMap(d, i, head, tag) ==
    IF i > Len(d) THEN [ok |-> FALSE, map |-> EmptyMap, next |-> i]
    ELSE IF d[i] = <<head, "{}">> THEN [ok |-> TRUE, map |-> EmptyMap, next |-> i + 1]
    ELSE IF d[i] = <<head>> /\ EntriesEnd(d, i + 1, tag) > i + 1
    THEN LET e == EntriesEnd(d, i + 1, tag)
         IN  [ok |-> TRUE, map |-> [k \in Names |-> Collect(d, i + 1, e - 1, k)], next |-> e]
    ELSE [ok |-> FALSE, map |-> EmptyMap, next |-> i]

\* serde_yaml::from_str::<State>(data)
Deserialize(d) ==
    LET bad == [ok |-> FALSE, items |-> EmptyMap, preserved |-> EmptyMap, path |-> NONE]
    IN  IF Len(d) < 3 THEN bad
        ELSE IF Len(d[1]) # 5 \/ d[1][1] # "hdr" THEN bad
        ELSE LET it == ParseMap(d, 2, "items", "item")
                 pr == ParseMap(d, it.next, "preserved", "pres")
             IN  IF it.ok /\ pr.ok /\ pr.next = Len(d) + 1
                 THEN [ok |-> TRUE, items |-> it.map, preserved |-> pr.map,
                       path |-> d[1][2]]
                 ELSE bad

(* ------------------------- file operations ---------------------------- *)
\* OpenOptions::new().write(true).create(true) followed by a write: the
\* bytes land at the start of the file and nothing truncates what was there
Overlay(old, new) == new \o SubSeq(old, Len(new) + 1, Len(old))

\* the call of write_manifest that fails, if one does
Faults == {"none", "open", "write", "rename"}

\* a failing call counts against the run's budget
Inject(fault) ==
    /\ fault # "none" => nfaults < MaxFaults
    /\ nfaults' = IF fault = "none" THEN nfaults ELSE nfaults + 1

\* a write_manifest that writes the manifest where it lies, with no temp file
write_manifest_in_place(f, exists, data, fault) ==
    IF ~exists \/ fault = "open" \/ f[MANIFEST].kind = "dir" THEN [fs |-> f, ok |-> FALSE]
    ELSE IF fault = "write" THEN [fs |-> [f EXCEPT ![MANIFEST] = File(<<>>)], ok |-> FALSE]
    ELSE IF fault = "rename" THEN [fs |-> [f EXCEPT ![MANIFEST] = File(data)], ok |-> FALSE]
    ELSE [fs |-> [f EXCEPT ![MANIFEST] = File(data)], ok |-> TRUE]

\* State::write_manifest: the files afterwards, and whether it returned Ok
write_manifest(f, exists, data, fault) ==
    IF ~exists \/ fault = "open" \/ f[TMP_MANIFEST].kind = "dir"
    THEN [fs |-> f, ok |-> FALSE]
    ELSE LET opened == [f EXCEPT ![TMP_MANIFEST] =
                            IF @.kind = "none" THEN File(<<>>) ELSE @]
         IN  IF fault = "write" THEN [fs |-> opened, ok |-> FALSE]
             ELSE LET written == [opened EXCEPT ![TMP_MANIFEST] =
                                      File(Overlay(@.data, data))]
                  IN  IF fault = "rename" \/ f[MANIFEST].kind = "dir"
                      THEN [fs |-> written, ok |-> FALSE]
                      ELSE [fs |-> [written EXCEPT ![MANIFEST] = written[TMP_MANIFEST],
                                                   ![TMP_MANIFEST] = NoFile],
                            ok |-> TRUE]

\* remove_file(path), its error ignored
RemoveFile(f, name) == IF f[name].kind = "file" THEN [f EXCEPT ![name] = NoFile] ELSE f

\* the directory that instance a's State.path names is there: the model has the
\* bundle directory and no other
DirAt(a) == dirExists /\ self_path[a] = BUNDLE_PATH

(* ------------------------------ Init ---------------------------------- *)
Init ==
    /\ procs = [p \in Pids |-> APP]
    /\ pidOf \in {[a \in Agents |-> IF a = "a" THEN 1 ELSE p] : p \in Pids}
    /\ dirExists = FALSE
    /\ fs = EmptyFs
    /\ pc = [a \in Agents |-> "idle"]
    /\ op = [a \in Agents |-> "none"]
    /\ identifier = [a \in Agents |-> <<>>]
    /\ items = [a \in Agents |-> EmptyMap]
    /\ preserved = [a \in Agents |-> EmptyMap]
    /\ self_path = [a \in Agents |-> NONE]
    /\ last = Ev("-", "init", "-")
    /\ nfaults = 0
    /\ ncrashes = 0

(* ----------------- load, new, load_else_create ------------------------ *)
\* the name of the constructor an instance is running
Ctor(o) == IF o = "new" THEN "new_from"
           ELSE IF o = "load" THEN "load_from" ELSE "load_else_create"

\* An Err out of load_from or new_from: load_else_create falls back to
\* new_from, any other constructor returns the error and no State.
ReturnErr(a) ==
    /\ identifier' = [identifier EXCEPT ![a] = <<>>]
    /\ IF op[a] = "lec_load"
       THEN /\ pc' = [pc EXCEPT ![a] = "start_new"]
            /\ op' = [op EXCEPT ![a] = "lec_new"]
            /\ last' = Ev(a, "load_from", "err")
       ELSE /\ pc' = [pc EXCEPT ![a] = "idle"]
            /\ op' = [op EXCEPT ![a] = "none"]
            /\ last' = Ev(a, Ctor(op[a]), "err")

\* get_state_id: this process's pid, a random nonce, this process's exe path
get_state_id(a, nonce) == StateId(pidOf[a], nonce, procs[pidOf[a]])

\* a load_from that makes the bundle directory, as new_from does
StartLoad_creates_dir(a, o, n) ==
    /\ pc[a] = "idle" /\ Alive(a)
    /\ o \in {"load", "lec_load"}
    /\ n \in Nonces
    /\ dirExists' = TRUE
    /\ identifier' = [identifier EXCEPT ![a] = get_state_id(a, n)]
    /\ pc' = [pc EXCEPT ![a] = "check"]
    /\ op' = [op EXCEPT ![a] = o]
    /\ last' = Ev(a, "start", "-")
    /\ UNCHANGED <<procs, pidOf, fs, items, preserved, nfaults, ncrashes>>
    /\ UNCHANGED self_path

\* load_from, up to get_state_id
StartLoad(a, o, n) ==
    /\ pc[a] = "idle" /\ Alive(a)
    /\ o \in {"load", "lec_load"}
    /\ n \in Nonces
    /\ identifier' = [identifier EXCEPT ![a] = get_state_id(a, n)]
    /\ pc' = [pc EXCEPT ![a] = "check"]
    /\ op' = [op EXCEPT ![a] = o]
    /\ last' = Ev(a, "start", "-")
    /\ UNCHANGED <<procs, pidOf, dirExists, fs, items, preserved, nfaults, ncrashes>>
    /\ UNCHANGED self_path

\* new_from, up to get_state_id: create_dir_all, then the state id
StartNew(a, n) ==
    /\ Alive(a)
    /\ \/ pc[a] = "idle" /\ op' = [op EXCEPT ![a] = "new"]
       \/ pc[a] = "start_new" /\ op' = op
    /\ dirExists' = TRUE
    /\ n \in Nonces
    /\ identifier' = [identifier EXCEPT ![a] = get_state_id(a, n)]
    /\ pc' = [pc EXCEPT ![a] = "check"]
    /\ last' = Ev(a, "start", "-")
    /\ UNCHANGED <<procs, pidOf, fs, items, preserved, nfaults, ncrashes>>
    /\ UNCHANGED self_path

\* acquire_dir: the first get_lock_acquired
Check(a) ==
    /\ pc[a] = "check" /\ Alive(a)
    /\ LET r == get_lock_acquired(identifier[a])
       IN  IF r = "err" THEN ReturnErr(a)
           ELSE /\ pc' = [pc EXCEPT ![a] = IF r = "true" THEN "locked" ELSE "remove"]
                /\ last' = Ev(a, "acquire", "-")
                /\ UNCHANGED <<op, identifier>>
    /\ UNCHANGED <<procs, pidOf, dirExists, fs, items, preserved, nfaults, ncrashes>>
    /\ UNCHANGED self_path

\* acquire_dir: let _ = remove_file(lockfile_path)
Remove(a) ==
    /\ pc[a] = "remove" /\ Alive(a)
    /\ fs' = RemoveFile(fs, LOCKFILE)
    /\ pc' = [pc EXCEPT ![a] = "write"]
    /\ last' = Ev(a, "acquire", "-")
    /\ UNCHANGED <<procs, pidOf, dirExists, op, identifier, items, preserved,
                   nfaults, ncrashes>>
    /\ UNCHANGED self_path

\* acquire_dir: open the lock file (created if absent) and write the state id
WriteLock(a) ==
    /\ pc[a] = "write" /\ Alive(a)
    /\ IF ~dirExists \/ fs[LOCKFILE].kind = "dir"
       THEN ReturnErr(a) /\ fs' = fs
       ELSE /\ fs' = [fs EXCEPT ![LOCKFILE] = File(Overlay(@.data, identifier[a]))]
            /\ pc' = [pc EXCEPT ![a] = "verify"]
            /\ last' = Ev(a, "acquire", "-")
            /\ UNCHANGED <<op, identifier>>
    /\ UNCHANGED <<procs, pidOf, dirExists, items, preserved, nfaults, ncrashes>>
    /\ UNCHANGED self_path

\* acquire_dir: after the sleep, the second get_lock_acquired
Verify(a) ==
    /\ pc[a] = "verify" /\ Alive(a)
    /\ IF get_lock_acquired(identifier[a]) = "true"
       THEN /\ pc' = [pc EXCEPT ![a] = "locked"]
            /\ last' = Ev(a, "acquire", "-")
            /\ UNCHANGED <<op, identifier>>
       ELSE ReturnErr(a)
    /\ UNCHANGED <<procs, pidOf, dirExists, fs, items, preserved, nfaults, ncrashes>>
    /\ UNCHANGED self_path

\* load_from after acquire_dir: read and deserialize the manifest
LoadRead(a) ==
    /\ pc[a] = "locked" /\ Alive(a)
    /\ op[a] \in {"load", "lec_load"}
    /\ LET m == fs[MANIFEST]
           s == Deserialize(m.data)
       IN  IF dirExists /\ m.kind = "file" /\ s.ok
           THEN /\ items' = [items EXCEPT ![a] = s.items]
                /\ preserved' = [preserved EXCEPT ![a] = s.preserved]
                /\ self_path' = [self_path EXCEPT ![a] = s.path]
                /\ pc' = [pc EXCEPT ![a] = "open"]
                /\ op' = [op EXCEPT ![a] = "none"]
                /\ last' = Ev(a, Ctor(op[a]), "ok")
                /\ UNCHANGED <<fs, identifier>>
           ELSE /\ fs' = RemoveFile(fs, LOCKFILE)
                /\ ReturnErr(a)
                /\ UNCHANGED <<items, preserved, self_path>>
    /\ UNCHANGED <<procs, pidOf, dirExists, nfaults, ncrashes>>

\* new_from after acquire_dir: the empty State and its first write_manifest
NewWrite(a, fault) ==
    /\ pc[a] = "locked" /\ Alive(a)
    /\ op[a] \in {"new", "lec_new"}
    /\ Inject(fault)
    /\ LET w == write_manifest(fs, dirExists, Serialize(identifier[a], EmptyMap, EmptyMap), fault)
       IN  IF w.ok
           THEN /\ fs' = w.fs
                /\ pc' = [pc EXCEPT ![a] = "open"]
                /\ self_path' = [self_path EXCEPT ![a] = BUNDLE_PATH]
                /\ UNCHANGED identifier
           ELSE /\ fs' = RemoveFile(w.fs, LOCKFILE)
                /\ pc' = [pc EXCEPT ![a] = "idle"]
                /\ identifier' = [identifier EXCEPT ![a] = <<>>]
                /\ UNCHANGED self_path
    /\ op' = [op EXCEPT ![a] = "none"]
    /\ last' = Ev(a, Ctor(op[a]), IF pc'[a] = "open" THEN "ok" ELSE "err")
    /\ items' = [items EXCEPT ![a] = EmptyMap]
    /\ preserved' = [preserved EXCEPT ![a] = EmptyMap]
    /\ UNCHANGED <<procs, pidOf, dirExists, ncrashes>>

\* a drop that leaves the lock file behind
Drop_keeps_lockfile(a) ==
    /\ pc[a] = "open" /\ Alive(a)
    /\ pc' = [pc EXCEPT ![a] = "idle"]
    /\ identifier' = [identifier EXCEPT ![a] = <<>>]
    /\ items' = [items EXCEPT ![a] = EmptyMap]
    /\ preserved' = [preserved EXCEPT ![a] = EmptyMap]
    /\ self_path' = [self_path EXCEPT ![a] = NONE]
    /\ last' = Ev(a, "drop", "ok")
    /\ UNCHANGED <<procs, pidOf, dirExists, fs, op, nfaults, ncrashes>>

\* impl Drop for State
Drop(a) ==
    /\ pc[a] = "open" /\ Alive(a)
    /\ fs' = RemoveFile(fs, LOCKFILE)
    /\ pc' = [pc EXCEPT ![a] = "idle"]
    /\ identifier' = [identifier EXCEPT ![a] = <<>>]
    /\ items' = [items EXCEPT ![a] = EmptyMap]
    /\ preserved' = [preserved EXCEPT ![a] = EmptyMap]
    /\ self_path' = [self_path EXCEPT ![a] = NONE]
    /\ last' = Ev(a, "drop", "ok")
    /\ UNCHANGED <<procs, pidOf, dirExists, op, nfaults, ncrashes>>

(* ------------------------- the State facade --------------------------- *)
\* State::get, for a caller that asks for the type it stored
Get(a, var) == IF items[a][var] = NONE THEN NONE ELSE Decode(items[a][var])

\* State::has
Has(a, item) == items[a][item] # NONE \/ preserved[a][item] # NONE

\* a set that does not look at the preserved map
Set_unchecked(a, var, value, fault) ==
    /\ pc[a] = "open" /\ Alive(a)
    /\ Inject(fault)
    /\ items' = [items EXCEPT ![a][var] = Encode(value)]
    /\ LET w == write_manifest(fs, DirAt(a),
                               SerializeAt(self_path[a], identifier[a], items'[a], preserved[a]), fault)
       IN  /\ fs' = w.fs
           /\ last' = Ev(a, "set", IF w.ok THEN "ok" ELSE "err")
    /\ UNCHANGED <<procs, pidOf, dirExists, pc, op, identifier, preserved, ncrashes>>
    /\ UNCHANGED self_path

\* State::set
Set(a, var, value, fault) ==
    /\ pc[a] = "open" /\ Alive(a)
    /\ Inject(fault)
    /\ IF preserved[a][var] # NONE
       THEN /\ fault = "none"
            /\ last' = Ev(a, "set", "err")
            /\ UNCHANGED <<fs, items>>
       ELSE /\ items' = [items EXCEPT ![a][var] = Encode(value)]
            /\ LET w == write_manifest(fs, DirAt(a),
                                       SerializeAt(self_path[a], identifier[a], items'[a], preserved[a]), fault)
               IN  /\ fs' = w.fs
                   /\ last' = Ev(a, "set", IF w.ok THEN "ok" ELSE "err")
    /\ UNCHANGED <<procs, pidOf, dirExists, pc, op, identifier, preserved, ncrashes>>
    /\ UNCHANGED self_path

\* a delete that returns an error for a name that is in neither map
Delete_absent_is_error(a, name, fault) ==
    /\ pc[a] = "open" /\ Alive(a)
    /\ Inject(fault)
    /\ items' = [items EXCEPT ![a][name] = NONE]
    /\ IF preserved[a][name] # NONE
       THEN /\ fault = "none"
            /\ preserved' = [preserved EXCEPT ![a][name] = NONE]
            /\ fs' = IF DirAt(a) THEN RemoveFile(fs, name) ELSE fs
            /\ last' = Ev(a, "delete", "err")
       ELSE IF items[a][name] = NONE
       THEN /\ fault = "none"
            /\ last' = Ev(a, "delete", "err")
            /\ UNCHANGED <<fs, preserved>>
       ELSE /\ LET w == write_manifest(fs, DirAt(a),
                                       SerializeAt(self_path[a], identifier[a], items'[a], preserved[a]), fault)
               IN  /\ fs' = w.fs
                   /\ last' = Ev(a, "delete", IF w.ok THEN "ok" ELSE "err")
            /\ UNCHANGED preserved
    /\ UNCHANGED <<procs, pidOf, dirExists, pc, op, identifier, ncrashes>>
    /\ UNCHANGED self_path

\* State::delete
Delete(a, name, fault) ==
    /\ pc[a] = "open" /\ Alive(a)
    /\ Inject(fault)
    /\ items' = [items EXCEPT ![a][name] = NONE]
    /\ IF preserved[a][name] # NONE
       THEN \* remove_file(&path)?; remove_dir_all(&path)?; the first fails on
            \* a directory, the second on the path the first has removed
            /\ fault = "none"
            /\ preserved' = [preserved EXCEPT ![a][name] = NONE]
            /\ fs' = IF DirAt(a) THEN RemoveFile(fs, name) ELSE fs
            /\ last' = Ev(a, "delete", "err")
       ELSE /\ LET w == write_manifest(fs, DirAt(a),
                                       SerializeAt(self_path[a], identifier[a], items'[a], preserved[a]), fault)
               IN  /\ fs' = w.fs
                   /\ last' = Ev(a, "delete", IF w.ok THEN "ok" ELSE "err")
            /\ UNCHANGED preserved
    /\ UNCHANGED <<procs, pidOf, dirExists, pc, op, identifier, ncrashes>>
    /\ UNCHANGED self_path

\* rename(from, to) inside the bundle directory: a file replaces a file, and
\* nothing replaces a directory that holds files
RenameOk(f, from, to) ==
    /\ f[from].kind # "none"
    /\ \/ f[to].kind = "none"
       \/ f[to].kind = "file" /\ f[from].kind = "file"

\* State::_preserve
Preserve(a, path, name, fault) ==
    /\ pc[a] = "open" /\ Alive(a)
    /\ Inject(fault)
    /\ IF items[a][name] # NONE
       THEN /\ fault = "none"
            /\ last' = Ev(a, "preserve", "err")
            /\ UNCHANGED <<fs, preserved>>
       ELSE IF ~DirAt(a) \/ fs[TmpName(name)].kind \notin {"none", SrcKind(path)}
       THEN \* copy / copy_dir into the staging path fails
            /\ fault = "none"
            /\ last' = Ev(a, "preserve", "err")
            /\ UNCHANGED <<fs, preserved>>
       ELSE LET copied == [fs EXCEPT ![TmpName(name)] =
                               [kind |-> SrcKind(path), data |-> << <<"copy", path>> >>]]
                w == write_manifest(copied, DirAt(a),
                                    SerializeAt(self_path[a], identifier[a], items[a],
                                              [preserved[a] EXCEPT ![name] = path]), fault)
            IN  /\ preserved' = [preserved EXCEPT ![a][name] = path]
                /\ IF w.ok /\ RenameOk(w.fs, TmpName(name), name)
                   THEN /\ fs' = [w.fs EXCEPT ![name] = w.fs[TmpName(name)],
                                              ![TmpName(name)] = NoFile]
                        /\ last' = Ev(a, "preserve", "ok")
                   ELSE fs' = w.fs /\ last' = Ev(a, "preserve", "err")
    /\ UNCHANGED <<procs, pidOf, dirExists, pc, op, identifier, items, ncrashes>>
    /\ UNCHANGED self_path

\* format!("{}/{}", &path, ".manifest"): the manifest, as a path a caller
\* may pass, and the places a caller restores to
ManifestPath == BUNDLE_PATH \o "/" \o MANIFEST
Dests == {"/out", ManifestPath}

\* a _restore_to that takes the entry out of the preserved map once the copy
\* is made
restore_to_consumes(a, name, path, call) ==
    /\ pc[a] = "open" /\ Alive(a)
    /\ IF preserved[a][name] = NONE \/ ~DirAt(a) \/ fs[name].kind = "none"
       THEN last' = Ev(a, call, "err") /\ UNCHANGED <<fs, preserved>>
       ELSE /\ last' = Ev(a, call, "ok")
            /\ preserved' = [preserved EXCEPT ![a][name] = NONE]
            /\ UNCHANGED fs
    /\ UNCHANGED <<procs, pidOf, dirExists, pc, op, identifier, items,
                   nfaults, ncrashes>>
    /\ UNCHANGED self_path

\* State::_restore_to: copy or copy_dir of the stored copy onto path.  copy
\* replaces the content of a file that is at path; copy_dir does not put a
\* directory where a file is.
restore_to(a, name, path, call) ==
    /\ pc[a] = "open" /\ Alive(a)
    /\ IF preserved[a][name] = NONE \/ ~DirAt(a) \/ fs[name].kind = "none"
       THEN last' = Ev(a, call, "err") /\ UNCHANGED fs
       ELSE IF path # ManifestPath
       THEN last' = Ev(a, call, "ok") /\ UNCHANGED fs
       ELSE IF fs[name].kind = "dir" \/ fs[MANIFEST].kind = "dir"
       THEN last' = Ev(a, call, "err") /\ UNCHANGED fs
       ELSE /\ fs' = [fs EXCEPT ![MANIFEST] = File(fs[name].data)]
            /\ last' = Ev(a, call, "ok")
    /\ UNCHANGED <<procs, pidOf, dirExists, pc, op, identifier, items, preserved,
                   nfaults, ncrashes>>
    /\ UNCHANGED self_path

\* State::_restore: to the path the entry was preserved from
Restore(a, name) ==
    restore_to(a, name, preserved[a][name], "restore")

\* State::_restore_to, as a caller uses it
RestoreTo(a, name, path) ==
    restore_to(a, name, path, "restore_to")

\* State::destroy_state_from: remove_dir_all of the bundle directory, its
\* error (the directory is not there) ignored
Destroy(a) ==
    /\ pc[a] \in {"idle", "open"} /\ Alive(a)
    /\ dirExists' = FALSE
    /\ fs' = EmptyFs
    /\ last' = Ev(a, "destroy", "ok")
    /\ UNCHANGED <<procs, pidOf, pc, op, identifier, items, preserved, nfaults, ncrashes>>
    /\ UNCHANGED self_path

(* --------------------------- the processes ---------------------------- *)
\* what a process's death does to its State instances: they are gone
\* without their destructors having run
Die(p) ==
    /\ procs' = [procs EXCEPT ![p] = DEAD]
    /\ pc' = [a \in Agents |-> IF pidOf[a] = p THEN "idle" ELSE pc[a]]
    /\ op' = [a \in Agents |-> IF pidOf[a] = p THEN "none" ELSE op[a]]
    /\ identifier' = [a \in Agents |-> IF pidOf[a] = p THEN <<>> ELSE identifier[a]]
    /\ items' = [a \in Agents |-> IF pidOf[a] = p THEN EmptyMap ELSE items[a]]
    /\ preserved' = [a \in Agents |-> IF pidOf[a] = p THEN EmptyMap ELSE preserved[a]]
    /\ self_path' = [a \in Agents |-> IF pidOf[a] = p THEN NONE ELSE self_path[a]]
    /\ ncrashes' = ncrashes + 1
    /\ last' = Ev("-", "crash", "-")
    /\ UNCHANGED <<pidOf, dirExists, nfaults>>

\* a process is killed between two file-system calls
Crash(p) ==
    /\ procs[p] # DEAD
    /\ ncrashes < MaxCrashes
    /\ Die(p)
    /\ UNCHANGED fs

\* a process is killed inside acquire_dir's write of the lock file: the file
\* is there and holds the first n lines of the state id
TornCrash(a, n) ==
    /\ pc[a] = "write" /\ Alive(a)
    /\ ncrashes < MaxCrashes
    /\ dirExists /\ fs[LOCKFILE].kind # "dir"
    /\ n \in 0..2
    /\ fs' = [fs EXCEPT ![LOCKFILE] = File(Overlay(@.data, SubSeq(identifier[a], 1, n)))]
    /\ Die(pidOf[a])

\* the moments of _preserve at which its process may be killed: inside the
\* copy to the staging path, after the copy, and after write_manifest
CrashPoints == {"copying", "copied", "committed"}

\* a process is killed inside _preserve
PreserveCrash(a, path, name, at) ==
    /\ pc[a] = "open" /\ Alive(a)
    /\ ncrashes < MaxCrashes
    /\ at \in CrashPoints
    /\ items[a][name] = NONE
    /\ DirAt(a) /\ fs[TmpName(name)].kind \in {"none", SrcKind(path)}
    /\ LET partial == [fs EXCEPT ![TmpName(name)] =
                           [kind |-> SrcKind(path), data |-> << <<"part", path>> >>]]
           copied == [fs EXCEPT ![TmpName(name)] =
                           [kind |-> SrcKind(path), data |-> << <<"copy", path>> >>]]
           w == write_manifest(copied, DirAt(a),
                               SerializeAt(self_path[a], identifier[a], items[a],
                                         [preserved[a] EXCEPT ![name] = path]), "none")
       IN  fs' = IF at = "copying" THEN partial
                 ELSE IF at = "copied" THEN copied
                 ELSE w.fs
    /\ Die(pidOf[a])

\* the operating system gives a free pid to a new process
Spawn(p, exe) ==
    /\ procs[p] = DEAD
    /\ procs' = [procs EXCEPT ![p] = exe]
    /\ last' = Ev("-", "spawn", "-")
    /\ UNCHANGED <<pidOf, dirExists, fs, pc, op, identifier, items, preserved,
                   nfaults, ncrashes>>
    /\ UNCHANGED self_path

(* ------------------------ the specifications -------------------------- *)
\* Spec: one State instance at a time, in process 1, uses the whole facade,
\* across file-system failures and a crash of the process.  Exclusivity is
\* not at stake here, and the nonce the owner draws is left at one value.
\* The owner works with two names, two values and both kinds of source.
TheOwner == "a"
OwnerNonces == {1}
OwnerKeys == {"k1", "k2"}

InitOwner == Init /\ pidOf["b"] = 2

Next ==
    \/ \E o \in {"load", "lec_load"}, n \in OwnerNonces : StartLoad(TheOwner, o, n)
    \/ \E n \in OwnerNonces : StartNew(TheOwner, n)
    \/ Check(TheOwner)
    \/ Remove(TheOwner)
    \/ WriteLock(TheOwner)
    \/ Verify(TheOwner)
    \/ LoadRead(TheOwner)
    \/ \E f \in Faults : NewWrite(TheOwner, f)
    \/ Drop(TheOwner)
    \/ \E k \in OwnerKeys, v \in Values, f \in Faults : Set(TheOwner, k, v, f)
    \/ \E k \in OwnerKeys, f \in Faults : Delete(TheOwner, k, f)
    \/ \E s \in Sources, k \in OwnerKeys, f \in Faults : Preserve(TheOwner, s, k, f)
    \/ Destroy(TheOwner)
    \/ Crash(pidOf[TheOwner])
    \/ Spawn(pidOf[TheOwner], APP)

Spec == InitOwner /\ [][Next]_vars

\* SpecLock: two State instances, in one process or in two, compete for the
\* bundle while processes die and pids are reused.
NextLock ==
    \/ \E a \in Agents :
        \/ \E o \in {"load", "lec_load"}, n \in Nonces : StartLoad(a, o, n)
        \/ \E n \in Nonces : StartNew(a, n)
        \/ Check(a)
        \/ Remove(a)
        \/ WriteLock(a)
        \/ Verify(a)
        \/ LoadRead(a)
        \/ NewWrite(a, "none")
        \/ Drop(a)
        \/ Set(a, KeyName[1], ValName[1], "none")
        \/ Destroy(a)
        \/ \E n \in 0..2 : TornCrash(a, n)
    \/ \E p \in Pids : Crash(p)
    \/ \E p \in Pids, e \in Exes : Spawn(p, e)

SpecLock == Init /\ [][NextLock]_vars

\* SpecAcquire: two State instances open and drop the bundle with their
\* steps interleaved; no process dies and nobody destroys the bundle.
NextAcquire ==
    \E a \in Agents :
        \/ \E o \in {"load", "lec_load"}, n \in Nonces : StartLoad(a, o, n)
        \/ \E n \in Nonces : StartNew(a, n)
        \/ Check(a)
        \/ Remove(a)
        \/ WriteLock(a)
        \/ Verify(a)
        \/ LoadRead(a)
        \/ NewWrite(a, "none")
        \/ Drop(a)
        \/ Set(a, KeyName[1], ValName[1], "none")

SpecAcquire == Init /\ [][NextAcquire]_vars

\* SpecNames: one State instance works with every name, one value and one
\* source, while the rename of write_manifest may fail.
NextNames ==
    \/ StartLoad(TheOwner, "load", 1)
    \/ StartNew(TheOwner, 1)
    \/ Check(TheOwner)
    \/ Remove(TheOwner)
    \/ WriteLock(TheOwner)
    \/ Verify(TheOwner)
    \/ LoadRead(TheOwner)
    \/ NewWrite(TheOwner, "none")
    \/ Drop(TheOwner)
    \/ \E k \in Keys : Set(TheOwner, k, ValName[1], "none")
    \/ \E k \in Keys : Delete(TheOwner, k, "none")
    \/ \E k \in Keys, f \in {"none", "rename"} : Preserve(TheOwner, "/f", k, f)

SpecNames == InitOwner /\ [][NextNames]_vars

\* SpecWrite: one State instance stores and deletes every value and
\* preserves one file while any file-system call of write_manifest may fail
\* and the process may be killed and started again.
NextWrite ==
    \/ StartLoad(TheOwner, "load", 1)
    \/ StartNew(TheOwner, 1)
    \/ Check(TheOwner)
    \/ Remove(TheOwner)
    \/ WriteLock(TheOwner)
    \/ Verify(TheOwner)
    \/ LoadRead(TheOwner)
    \/ \E f \in Faults : NewWrite(TheOwner, f)
    \/ Drop(TheOwner)
    \/ \E k \in OwnerKeys, v \in Values, f \in Faults : Set(TheOwner, k, v, f)
    \/ \E k \in OwnerKeys, f \in Faults : Delete(TheOwner, k, f)
    \/ \E f \in Faults : Preserve(TheOwner, "/f", KeyName[1], f)
    \/ Crash(pidOf[TheOwner])
    \/ Spawn(pidOf[TheOwner], APP)

SpecWrite == InitOwner /\ [][NextWrite]_vars

\* SpecKeys: one State instance stores every value under two names, deletes
\* any name, also one that was never stored, preserves one file and restores
\* it, to its source or to another place, while any file-system call of
\* write_manifest may fail.
NextKeys ==
    \/ StartLoad(TheOwner, "load", 1)
    \/ StartNew(TheOwner, 1)
    \/ Check(TheOwner)
    \/ Remove(TheOwner)
    \/ WriteLock(TheOwner)
    \/ Verify(TheOwner)
    \/ LoadRead(TheOwner)
    \/ \E f \in Faults : NewWrite(TheOwner, f)
    \/ Drop(TheOwner)
    \/ \E k \in OwnerKeys, v \in Values, f \in Faults : Set(TheOwner, k, v, f)
    \/ \E k \in Keys, f \in Faults : Delete(TheOwner, k, f)
    \/ \E f \in Faults : Preserve(TheOwner, "/f", KeyName[1], f)
    \/ \E k \in OwnerKeys : Restore(TheOwner, k)
    \/ \E k \in OwnerKeys, d \in Dests : RestoreTo(TheOwner, k, d)

SpecKeys == InitOwner /\ [][NextKeys]_vars

\* SpecPreserve: one State instance stores every value under two names,
\* deletes any name, also one that was never stored, preserves one file and
\* restores it while any file-system call of write_manifest may fail
\* and the process may be killed and started again.
NextPreserve ==
    \/ StartLoad(TheOwner, "load", 1)
    \/ StartNew(TheOwner, 1)
    \/ Check(TheOwner)
    \/ Remove(TheOwner)
    \/ WriteLock(TheOwner)
    \/ Verify(TheOwner)
    \/ LoadRead(TheOwner)
    \/ \E f \in Faults : NewWrite(TheOwner, f)
    \/ Drop(TheOwner)
    \/ \E k \in OwnerKeys, v \in Values, f \in Faults : Set(TheOwner, k, v, f)
    \/ \E k \in Keys, f \in Faults : Delete(TheOwner, k, f)
    \/ \E f \in Faults : Preserve(TheOwner, "/f", KeyName[1], f)
    \/ \E at \in CrashPoints : PreserveCrash(TheOwner, "/f", KeyName[1], at)
    \/ \E k \in OwnerKeys : Restore(TheOwner, k)
    \/ \E k \in OwnerKeys, d \in Dests : RestoreTo(TheOwner, k, d)
    \/ Crash(pidOf[TheOwner])
    \/ Spawn(pidOf[TheOwner], APP)

SpecPreserve == InitOwner /\ [][NextPreserve]_vars

\* SpecDestroy: two State instances in two processes create, load, use and
\* drop the bundle while either of them destroys it at any moment.
NextDestroy ==
    \E a \in Agents :
        \/ StartLoad(a, "load", 1)
        \/ StartNew(a, 1)
        \/ Check(a)
        \/ Remove(a)
        \/ WriteLock(a)
        \/ Verify(a)
        \/ LoadRead(a)
        \/ NewWrite(a, "none")
        \/ Drop(a)
        \/ Set(a, KeyName[1], ValName[1], "none")
        \/ Destroy(a)

SpecDestroy == InitOwner /\ [][NextDestroy]_vars

\* SpecPaths: the bundle directory is there with a manifest that an earlier
\* run wrote.  That run made the bundle with new_from, at this place or under
\* another root, from where the directory was moved here afterwards; the
\* manifest holds the path strings that new_from built from its own root.
\* One State instance loads, creates, uses and drops the bundle.
OTHER_PATH == "Q/X"
BundlePaths == {BUNDLE_PATH, OTHER_PATH}
EarlierItems == {EmptyMap, [EmptyMap EXCEPT ![KeyName[1]] = ValName[1]]}

InitPaths ==
    /\ procs = [p \in Pids |-> APP]
    /\ pidOf = [a \in Agents |-> IF a = "a" THEN 1 ELSE 2]
    /\ dirExists = TRUE
    /\ fs \in {[EmptyFs EXCEPT ![MANIFEST] =
                     File(SerializeAt(d, StateId(2, 1, APP), it, EmptyMap))] :
                 d \in BundlePaths, it \in EarlierItems}
    /\ pc = [a \in Agents |-> "idle"]
    /\ op = [a \in Agents |-> "none"]
    /\ identifier = [a \in Agents |-> <<>>]
    /\ items = [a \in Agents |-> EmptyMap]
    /\ preserved = [a \in Agents |-> EmptyMap]
    /\ self_path = [a \in Agents |-> NONE]
    /\ last = Ev("-", "init", "-")
    /\ nfaults = 0
    /\ ncrashes = 0

NextPaths ==
    \/ \E n \in Nonces : StartLoad(TheOwner, "load", n)
    \/ \E n \in Nonces : StartNew(TheOwner, n)
    \/ Check(TheOwner)
    \/ Remove(TheOwner)
    \/ WriteLock(TheOwner)
    \/ Verify(TheOwner)
    \/ LoadRead(TheOwner)
    \/ NewWrite(TheOwner, "none")
    \/ Drop(TheOwner)
    \/ \E k \in OwnerKeys, v \in Values : Set(TheOwner, k, v, "none")
    \/ \E k \in OwnerKeys : Delete(TheOwner, k, "none")

SpecPaths == InitPaths /\ [][NextPaths]_vars

\* SpecReserved: one State instance creates, loads, uses and drops the
\* bundle and preserves a file or a directory under a name of its own or
\* under the name of one of the crate's files; no file-system call fails.
PreserveNames == BundleFiles \cup {KeyName[1]}

NextReserved ==
    \/ StartLoad(TheOwner, "load", 1)
    \/ StartNew(TheOwner, 1)
    \/ Check(TheOwner)
    \/ Remove(TheOwner)
    \/ WriteLock(TheOwner)
    \/ Verify(TheOwner)
    \/ LoadRead(TheOwner)
    \/ NewWrite(TheOwner, "none")
    \/ Drop(TheOwner)
    \/ Set(TheOwner, KeyName[2], ValName[1], "none")
    \/ \E s \in Sources, n \in PreserveNames : Preserve(TheOwner, s, n, "none")

SpecReserved == InitOwner /\ [][NextReserved]_vars

\* SpecOracle: the bundle directory is there with a lock file left by
\* earlier runs, which holds any token of TokenSamples, and the process
\* table is any table; State instances load, create and drop.
FullIds == {StateId(p, n, e) : p \in Pids, n \in Nonces, e \in Exes}
TokenSamples ==
    FullIds
      \cup {SubSeq(t, 1, k) : t \in FullIds, k \in 0..2}
      \cup {t \o << <<"tail">> >> : t \in FullIds}
      \cup {[t EXCEPT ![1] = <<"x">>] : t \in FullIds}
      \cup {[t EXCEPT ![1] = <<"3">>] : t \in FullIds}

InitOracle ==
    /\ procs \in [Pids -> Exes \cup {DEAD}]
    /\ pidOf \in {[a \in Agents |-> IF a = "a" THEN 1 ELSE p] : p \in Pids}
    /\ dirExists = TRUE
    /\ fs \in {[EmptyFs EXCEPT ![LOCKFILE] = File(t)] : t \in TokenSamples}
    /\ pc = [a \in Agents |-> "idle"]
    /\ op = [a \in Agents |-> "none"]
    /\ identifier = [a \in Agents |-> <<>>]
    /\ items = [a \in Agents |-> EmptyMap]
    /\ preserved = [a \in Agents |-> EmptyMap]
    /\ self_path = [a \in Agents |-> NONE]
    /\ last = Ev("-", "init", "-")
    /\ nfaults = 0
    /\ ncrashes = 0

NextOracle ==
    \E a \in Agents :
        \/ \E n \in Nonces : StartLoad(a, "load", n)
        \/ \E n \in Nonces : StartNew(a, n)
        \/ Check(a)
        \/ Remove(a)
        \/ WriteLock(a)
        \/ Verify(a)
        \/ LoadRead(a)
        \/ NewWrite(a, "none")
        \/ Drop(a)

SpecOracle == InitOracle /\ [][NextOracle]_vars

(* ------------------------------ claims -------------------------------- *)
\* instance h has the bundle open and the lock file holds its state id
Held(h) ==
    /\ pc[h] = "open" /\ Alive(h)
    /\ dirExists /\ fs[LOCKFILE] = File(identifier[h])

\* a step of a constructor before it has written anything
AttemptStep(a) ==
    \/ Check(a)
    \/ \E o \in {"load", "lec_load"}, n \in Nonces : StartLoad(a, o, n)
    \/ \E n \in Nonces : StartNew(a, n)

\* the constructor of instance a has just returned an error (or, inside
\* load_else_create, load_from has)
Refused(a) == last'.agent = a /\ last'.r = "err" /\ pc'[a] \in {"idle", "start_new"}

\* C1: while a State is open and the lock file holds its state
\* id, every ownership check of another instance, in the same process or in
\* another one, ends in an error, and the attempt changes no file.
C1_ExclusiveAlways ==
    [][\A a, h \in Agents :
         (a # h /\ Held(h)) =>
            /\ Check(a) => Refused(a)
            /\ AttemptStep(a) => (fs' = fs /\ Held(h)')]_vars

\* what get(k) returns in a State that load_from builds from the manifest
Reloaded(k) ==
    LET s == Deserialize(fs[MANIFEST].data)
    IN  IF ~dirExists \/ fs[MANIFEST].kind # "file" \/ ~s.ok THEN "load fails"
        ELSE IF s.items[k] = NONE THEN NONE ELSE Decode(s.items[k])

\* C2: after a successful set(k, v), get(k) is v, and after a successful
\* delete(k) it is absent; the other names keep their values; and a State
\* loaded from the manifest at that moment answers every get the same way.
C2_RoundTrip ==
    [][\A a \in Agents, k \in Keys, f \in Faults :
         /\ \A v \in Values :
              (Set(a, k, v, f) /\ last'.r = "ok") =>
                 /\ Get(a, k)' = v
                 /\ \A j \in Keys \ {k} : Get(a, j)' = Get(a, j)
                 /\ \A j \in Keys : Reloaded(j)' = Get(a, j)'
         /\ (Delete(a, k, f) /\ last'.r = "ok") =>
                 /\ Get(a, k)' = NONE
                 /\ \A j \in Keys \ {k} : Get(a, j)' = Get(a, j)
                 /\ \A j \in Keys : Reloaded(j)' = Get(a, j)']_vars

\* a call that runs write_manifest and in which file-system call f fails
FailedWrite(a, f) ==
    \/ NewWrite(a, f)
    \/ \E k \in Keys, v \in Values : Set(a, k, v, f)
    \/ \E k \in Keys : Delete(a, k, f)
    \/ \E k \in Keys, s \in Sources : Preserve(a, s, k, f)

\* C3: a manifest write that stops at the open of the temp file, after the
\* open, or after the write of the temp file (before the rename), and a
\* process that dies, leave the file at the manifest path as it was, so it
\* loads as it did before.
C3_AtomicPersistence ==
    [][/\ \A a \in Agents, f \in Faults \ {"none"} :
            FailedWrite(a, f) =>
               /\ fs'[MANIFEST] = fs[MANIFEST]
               /\ last'.r = "err"
       /\ \A p \in Pids : Crash(p) => fs'[MANIFEST] = fs[MANIFEST]]_vars

\* C3 witness: a set has failed after the temp file was written; the temp
\* file holds the new items, the manifest still loads and holds the old ones.
C3_Witness ==
    /\ last = Ev(TheOwner, "set", "err")
    /\ fs[TMP_MANIFEST].kind = "file" /\ Deserialize(fs[TMP_MANIFEST].data).ok
    /\ Deserialize(fs[TMP_MANIFEST].data).items = items[TheOwner]
    /\ fs[MANIFEST].kind = "file" /\ Deserialize(fs[MANIFEST].data).ok
    /\ Deserialize(fs[MANIFEST].data).items # items[TheOwner]

\* C4: right after a set, delete, preserve or constructor has returned
\* success, the manifest on disk deserializes to the State's items and
\* preserved maps.
C4_ManifestIsMemory ==
    \A a \in Agents :
        (/\ last.agent = a /\ last.r = "ok"
         /\ last.call \in {"set", "delete", "preserve", "new_from", "load_else_create"})
        => LET s == Deserialize(fs[MANIFEST].data)
           IN  /\ dirExists /\ fs[MANIFEST].kind = "file" /\ s.ok
               /\ s.items = items[a]
               /\ s.preserved = preserved[a]

\* C5: dropping a State returns, and leaves no lock file; and no instance's
\* ownership check is refused unless another instance is holding or taking
\* the lock with the state id the lock file shows, so nobody is refused on
\* account of a State that has been dropped.
C5_Release ==
    [][\A a \in Agents :
         /\ Drop(a) => (fs'[LOCKFILE] = NoFile /\ pc'[a] = "idle" /\ last' = Ev(a, "drop", "ok"))
         /\ (Check(a) /\ Refused(a)) =>
               \E h \in Agents \ {a} :
                   /\ pc[h] \in {"verify", "locked", "open"}
                   /\ fs[LOCKFILE] = File(identifier[h])]_vars

\* C5 witness: instance a has dropped its State and instance b has since
\* loaded the items it had stored.
C5_Witness ==
    /\ pc["a"] = "idle" /\ last = Ev("b", "load_from", "ok")
    /\ items["b"][KeyName[1]] # NONE
    /\ fs[LOCKFILE] = File(identifier["b"])

\* the lock file holds lines that are not state_id and that name no live
\* process running the executable they name
Stale(state_id) ==
    /\ dirExists /\ fs[LOCKFILE].kind = "file"
    /\ LET t == fs[LOCKFILE].data
       IN  /\ t # state_id
           /\ \/ Len(t) # 3
              \/ ParsePid(t[1]) = -1
              \/ procs[ParsePid(t[1])] = DEAD
              \/ t[3] # <<procs[ParsePid(t[1])]>>

\* C6: an ownership check that finds a stale lock file goes on to take the
\* lock; the stale file is deleted, the lock file written next holds the
\* acquirer's state id and nothing else, the re-verification of that file
\* succeeds, and whenever acquisition succeeds the lock file holds exactly
\* the acquirer's state id.
C6_StaleLockRecovery ==
    [][\A a \in Agents :
         /\ (Check(a) /\ Stale(identifier[a])) => pc'[a] = "remove"
         /\ Remove(a) => fs'[LOCKFILE] = NoFile
         /\ (WriteLock(a) /\ dirExists) =>
               (fs'[LOCKFILE] = File(identifier[a]) /\ pc'[a] = "verify")
         /\ (Verify(a) /\ fs[LOCKFILE] = File(identifier[a]) /\ dirExists) => pc'[a] = "locked"
         /\ ((Check(a) \/ Verify(a)) /\ pc'[a] = "locked") =>
               fs'[LOCKFILE] = File(identifier[a])]_vars

\* C6 witness: the lock file holds the state id of a process that died and
\* whose pid now runs another executable, and the ownership check of a live
\* instance has let it pass.
C6_Witness ==
    \E a \in Agents :
        /\ pc[a] = "remove" /\ Stale(identifier[a])
        /\ last = Ev(a, "acquire", "-")
        /\ LET t == fs[LOCKFILE].data
           IN  /\ Len(t) = 3 /\ ParsePid(t[1]) # -1
               /\ procs[ParsePid(t[1])] = "other"
               /\ t[3] = <<APP>>

\* C7: no two instances in different processes have acquired the lock of
\* the bundle at the same time.
C7_MutualExclusion ==
    \A a, h \in Agents :
        (a # h /\ pidOf[a] # pidOf[h]) =>
            ~(pc[a] \in {"locked", "open"} /\ pc[h] \in {"locked", "open"})

\* C8: no name is in both the items and the preserved map of a State.
C8_Disjoint ==
    \A a \in Agents, k \in Keys : ~(items[a][k] # NONE /\ preserved[a][k] # NONE)

\* C9: delete(key) of a preserved key returns success, has the key out of
\* preserved, has the stored copy off the disk and the manifest written.
C9_DeletePreserved ==
    [][\A a \in Agents, k \in Keys :
         (preserved[a][k] # NONE /\ Delete(a, k, "none")) =>
            /\ last' = Ev(a, "delete", "ok")
            /\ preserved'[a][k] = NONE
            /\ fs'[k] = NoFile
            /\ Deserialize(fs'[MANIFEST].data).preserved = preserved'[a]]_vars

\* C10: load_else_create does not replace a manifest that exists and
\* deserializes by the manifest of an empty State.
C10_KeepsExistingState ==
    [][\A a \in Agents :
         (/\ op[a] = "lec_new" /\ NewWrite(a, "none")
          /\ fs[MANIFEST].kind = "file" /\ Deserialize(fs[MANIFEST].data).ok)
         => fs'[MANIFEST] = fs[MANIFEST]]_vars

\* C11: a set of a name that is in the preserved map, and a preserve under
\* a name that is in the items map, return an error and leave items,
\* preserved, every file of the bundle directory and the directory itself
\* as they were.
C11_NameConflict ==
    [][\A a \in Agents, k \in Keys, f \in Faults :
         /\ \A v \in Values :
              (preserved[a][k] # NONE /\ Set(a, k, v, f)) =>
                 /\ last' = Ev(a, "set", "err")
                 /\ UNCHANGED <<items, preserved, fs, dirExists>>
         /\ \A s \in Sources :
              (items[a][k] # NONE /\ Preserve(a, s, k, f)) =>
                 /\ last' = Ev(a, "preserve", "err")
                 /\ UNCHANGED <<items, preserved, fs, dirExists>>]_vars

\* C11 witness: with no file-system call having failed, a set has just
\* returned an error in a State that has a preserved entry and its copy.
C11_Witness ==
    /\ last = Ev(TheOwner, "set", "err") /\ nfaults = 0 /\ dirExists
    /\ preserved[TheOwner][KeyName[1]] # NONE
    /\ fs[KeyName[1]].kind = "file"
    /\ Deserialize(fs[MANIFEST].data).preserved = preserved[TheOwner]

\* instance h has acquired the lock, and the lock file holds its state id
LockHolder(h) ==
    /\ pc[h] \in {"locked", "open"} /\ Alive(h)
    /\ dirExists /\ fs[LOCKFILE] = File(identifier[h])

\* C12: when load_from or new_from returns an error, the lock file does not
\* hold the state id that call wrote, and the step on which the call fails
\* leaves the lock file of another instance that holds the lock as it is.
C12_FailureLeavesNoLock ==
    [][\A a \in Agents :
         ((Check(a) \/ WriteLock(a) \/ Verify(a) \/ LoadRead(a)
            \/ \E f \in Faults : NewWrite(a, f)) /\ last'.r = "err") =>
            /\ fs'[LOCKFILE] # File(identifier[a])
            /\ \A h \in Agents \ {a} : LockHolder(h) => fs'[LOCKFILE] = fs[LOCKFILE]]_vars

\* a step of load_from by instance a
LoadStep(a) ==
    \/ \E n \in Nonces : StartLoad(a, "load", n)
    \/ op[a] = "load" /\ (Check(a) \/ Remove(a) \/ WriteLock(a) \/ Verify(a) \/ LoadRead(a))

\* C13: destroy leaves no bundle directory and no file of it, and where
\* there was none it changes nothing; while the directory is absent, no step
\* of load_from makes the directory or a file in it, load_from never returns
\* a State, and its attempt to write the lock file ends it with an error.
C13_DestroyThenLoad ==
    [][\A a \in Agents :
         /\ Destroy(a) =>
               /\ ~dirExists' /\ fs' = EmptyFs
               /\ ~dirExists => (fs' = fs /\ dirExists' = dirExists)
               /\ UNCHANGED <<pc, items, preserved>>
         /\ (~dirExists /\ LoadStep(a)) =>
               /\ ~dirExists' /\ fs' = EmptyFs
               /\ pc'[a] # "open"
         /\ (~dirExists /\ op[a] = "load" /\ WriteLock(a)) =>
               (last' = Ev(a, "load_from", "err") /\ pc'[a] = "idle")]_vars

\* C13 witness: instance b made the bundle and stored an item in it, the
\* bundle has been destroyed since, and a load by instance a has just failed.
C13_Witness ==
    /\ pc["b"] = "open" /\ items["b"][KeyName[1]] # NONE
    /\ ~dirExists /\ fs = EmptyFs
    /\ last = Ev("a", "load_from", "err")

\* name k is in neither map of instance a
Absent(a, k) == items[a][k] = NONE /\ preserved[a][k] = NONE

\* C14: delete of a name that is in neither map leaves items and preserved
\* as they are, whether its manifest write succeeds or not, so that the name
\* is absent again for the next delete; and it returns success when no
\* file-system call fails.
C14_DeleteAbsent ==
    [][\A a \in Agents, k \in Keys :
         /\ \A f \in Faults :
              (Absent(a, k) /\ Delete(a, k, f)) =>
                 /\ UNCHANGED <<items, preserved>>
                 /\ Absent(a, k)'
         /\ (Absent(a, k) /\ dirExists /\ Delete(a, k, "none")) =>
                 last' = Ev(a, "delete", "ok")]_vars

\* C14 witness: a delete has just returned success in a State whose two
\* stored names are both still there, so the name deleted was an absent one.
C14_Witness ==
    /\ last = Ev(TheOwner, "delete", "ok")
    /\ \A k \in OwnerKeys : items[TheOwner][k] # NONE
    /\ Deserialize(fs[MANIFEST].data).items = items[TheOwner]

\* C15: new_from on a bundle that has a manifest and that no live process
\* holds, when none of its file-system calls fails, returns a State with
\* empty items and preserved, and leaves a manifest on disk that
\* deserializes to empty items and preserved.
C15_NewOverwrites ==
    [][\A a \in Agents :
         (/\ op[a] = "new" /\ NewWrite(a, "none")
          /\ dirExists /\ fs[MANIFEST].kind = "file"
          /\ \A h \in Agents \ {a} : pc[h] = "idle")
         => /\ last' = Ev(a, "new_from", "ok") /\ pc'[a] = "open"
            /\ items'[a] = EmptyMap /\ preserved'[a] = EmptyMap
            /\ LET s == Deserialize(fs'[MANIFEST].data)
               IN  s.ok /\ s.items = EmptyMap /\ s.preserved = EmptyMap]_vars

\* some live process has the pid that the first line of token t spells and
\* the executable path that its third line holds
LiveOwner(t) ==
    \E p \in Pids : /\ procs[p] # DEAD
                    /\ t[1] = <<ToString(p)>>
                    /\ t[3] = <<procs[p]>>

\* C17: the ownership check finds the lock file to be the caller's own iff
\* the file is identical to the caller's state id; otherwise it finds it to
\* be another's, and returns an error, iff the file has exactly three lines
\* and a live process has the pid of the first and the executable of the
\* third; otherwise it finds it to be nobody's and goes on to replace it.  A
\* token of a live pid that runs another executable is nobody's.
C17_Classification ==
    [][\A a \in Agents :
         (Check(a) /\ dirExists /\ fs[LOCKFILE].kind = "file") =>
            LET own == identifier[a]
                t == fs[LOCKFILE].data
                other == t # own /\ Len(t) = 3 /\ LiveOwner(t)
            IN  /\ pc'[a] = "locked" <=> t = own
                /\ Refused(a) <=> other
                /\ pc'[a] = "remove" <=> (t # own /\ ~other)
                /\ match_state_id(own, t) =
                      (IF t = own THEN "Me" ELSE IF other THEN "Other" ELSE "Nobody")
                /\ (/\ t # own /\ Len(t) = 3 /\ ParsePid(t[1]) # -1
                    /\ procs[ParsePid(t[1])] # DEAD
                    /\ t[3] # <<procs[ParsePid(t[1])]>>) => pc'[a] = "remove"]_vars

\* C17 witness: an instance has just been refused on account of a lock file
\* that holds the state id of another live process running the same program,
\* while the other process of the table runs another executable.
C17_Witness ==
    \E a \in Agents :
        /\ last = Ev(a, "load_from", "err") /\ pc[a] = "idle"
        /\ fs[LOCKFILE].kind = "file" /\ Len(fs[LOCKFILE].data) = 3
        /\ ParsePid(fs[LOCKFILE].data[1]) = 2 /\ pidOf[a] = 1
        /\ procs[2] = APP /\ fs[LOCKFILE].data[3] = <<APP>>

ManifestWrite(a) ==
    \/ NewWrite(a, "none")
    \/ \E k \in Keys, v \in Values : Set(a, k, v, "none")
    \/ \E k \in Keys : Delete(a, k, "none")
    \/ \E k \in Keys, s \in Sources : Preserve(a, s, k, "none")

\* C18: when a call that writes the manifest returns success, the manifest
\* file is exactly the serialization of the State, line for line, whatever
\* temp manifest file an earlier interrupted write has left, and no temp
\* manifest file is left.
C18_ExactSerialization ==
    [][\A a \in Agents :
         (ManifestWrite(a) /\ last'.r = "ok") =>
            /\ fs'[MANIFEST] = File(Serialize(identifier'[a], items'[a], preserved'[a]))
            /\ fs'[TMP_MANIFEST] = NoFile]_vars

\* the manifest file has a line that lists name k as preserved
Lists(k) ==
    /\ dirExists /\ fs[MANIFEST].kind = "file"
    /\ \E i \in 1..Len(fs[MANIFEST].data) :
           LET l == fs[MANIFEST].data[i]
           IN  Len(l) = 3 /\ l[1] = "pres" /\ l[2] = k

\* a whole copy of a source is at the staging path or at the final path of k
CompleteCopy(k) ==
    \E n \in {k, TmpName(k)} :
        /\ fs[n].kind # "none"
        /\ fs[n].data # <<>> /\ fs[n].data[1][1] = "copy"

\* C19: after every preserve, finished or cut short by the death of its
\* process inside the copy, after the copy or after the manifest write, the
\* manifest lists the name only if a whole copy is at the staging path or at
\* the final path; and a death before the manifest write leaves the manifest
\* as it was.
C19_PreserveOrdering ==
    [][\A a \in Agents, k \in Keys, s \in Sources :
         /\ \A f \in Faults : Preserve(a, s, k, f) => (Lists(k)' => CompleteCopy(k)')
         /\ \A at \in CrashPoints :
               PreserveCrash(a, s, k, at) =>
                  /\ Lists(k)' => CompleteCopy(k)'
                  /\ at # "committed" => fs'[MANIFEST] = fs[MANIFEST]]_vars

(* ------------------------------- C20 ---------------------------------- *)
\* C20: a State that load returns works at the paths derived from the root
\* and the name it was loaded with, whatever path strings the manifest
\* holds: its State.path is the derived bundle path, and a set on it that
\* meets no name conflict leaves, in the manifest at the derived path, the
\* serialization of the State.
C20_DerivedPaths ==
    [][\A a \in Agents :
         /\ (LoadRead(a) /\ pc'[a] = "open") => self_path'[a] = BUNDLE_PATH
         /\ \A k \in Keys, v \in Values :
               (Set(a, k, v, "none") /\ preserved[a][k] = NONE /\ dirExists) =>
                  /\ last' = Ev(a, "set", "ok")
                  /\ fs'[MANIFEST] = File(Serialize(identifier[a], items'[a],
                                                    preserved'[a]))]_vars

(* ------------------------------- C21 ---------------------------------- *)
\* the call that instance a has just finished is a set, a delete or a
\* preserve that returned an error
FailedCall(a) ==
    /\ last'.r = "err"
    /\ \/ \E k \in Keys, v \in Values, f \in Faults : Set(a, k, v, f)
       \/ \E k \in Keys, f \in Faults : Delete(a, k, f)
       \/ \E k \in Keys, s \in Sources, f \in Faults : Preserve(a, s, k, f)

\* C21: a set, a delete or a preserve that returns an error leaves the items
\* map and the preserved map of the State as they were before the call.
C21_ErrorLeavesMemory ==
    [][\A a \in Agents :
         FailedCall(a) => /\ items'[a] = items[a]
                          /\ preserved'[a] = preserved[a]]_vars

(* ------------------------------- C22 ---------------------------------- *)
\* C22: the drop of a State removes the lock file only when the lock file
\* holds the identifier of that State, and an instance that holds the
\* bundle before another instance is dropped holds it afterwards.
C22_DropOwnLockOnly ==
    [][\A a \in Agents :
         Drop(a) =>
            /\ fs[LOCKFILE] # File(identifier[a]) => fs'[LOCKFILE] = fs[LOCKFILE]
            /\ \A h \in Agents \ {a} : Held(h) => Held(h)']_vars

(* ------------------------------- C23 ---------------------------------- *)
\* the files after the manifest write that a preserve of path under name
\* makes, had it nothing else to do
PreserveWrite(a, path, name) ==
    write_manifest(fs, DirAt(a),
                   SerializeAt(self_path[a], identifier[a], items[a],
                               [preserved[a] EXCEPT ![name] = path]), "none").fs

\* C23: a preserve, under whatever name, leaves the lock file as it was, and
\* leaves the manifest and the temporary manifest either as they were or as
\* its manifest write leaves them: the staging copy and the final rename
\* touch none of the three.
C23_PreserveKeepsBundleFiles ==
    [][\A a \in Agents, s \in Sources, n \in Names :
         Preserve(a, s, n, "none") =>
            /\ fs'[LOCKFILE] = fs[LOCKFILE]
            /\ \A b \in {MANIFEST, TMP_MANIFEST} :
                  fs'[b] = fs[b] \/ fs'[b] = PreserveWrite(a, s, n)[b]]_vars
====
